---- MODULE Spec2Model ----
(***************************************************************************)
(* Food Advisor (src/app.py): a Streamlit script that collects a dish name *)
(* or photo, sends a prompt to a hosted model and renders the JSON reply.  *)
(*                                                                         *)
(* Texts are TLA+ strings; TLC treats them as sequences of characters      *)
(* (Len, SubSeq, \o).  The TLA+ lexer does not accept the grave accent     *)
(* inside a string literal, so the model writes the markdown fence         *)
(* character as "~": Fence is the source's three-grave-accent marker.      *)
(* The alphabet of every text handed to safe_json_parse is lower-case      *)
(* letters, digits, space, newline, "_", "~" and the JSON punctuation; it  *)
(* has no backslash, sign, decimal point or upper-case letter, so          *)
(* json_loads below needs no escape, fraction or NaN/Infinity rule to be   *)
(* exact on these texts.                                                   *)
(***************************************************************************)
EXTENDS Integers, Sequences, FiniteSets, TLC

(***************************************************************************)
(* Python str helpers used by safe_json_parse and the handler.             *)
(***************************************************************************)
None == [t |-> "None"]

Ch(s, i) == SubSeq(s, i, i)

Whitespace == {" ", "\n"}

\* s[i-1:].startswith(lit) for a non-empty lit
StartsAt(s, i, lit) ==
    /\ i + Len(lit) - 1 <= Len(s)
    /\ Ch(s, i) = Ch(lit, 1)
    /\ SubSeq(s, i, i + Len(lit) - 1) = lit

\* the least member of a non-empty set of positions
Least(S) == CHOOSE i \in S : \A j \in S : i <= j

\* str.lstrip()
RECURSIVE LStrip(_)
LStrip(s) ==
    IF Len(s) > 0 /\ Ch(s, 1) \in Whitespace THEN LStrip(SubSeq(s, 2, Len(s))) ELSE s

\* str.rstrip()
RECURSIVE RStrip(_)
RStrip(s) ==
    IF Len(s) > 0 /\ Ch(s, Len(s)) \in Whitespace
    THEN RStrip(SubSeq(s, 1, Len(s) - 1))
    ELSE s

\* str.strip()
Strip(s) == RStrip(LStrip(s))

\* str.replace(old, new) for a non-empty old: non-overlapping occurrences,
\* scanned left to right
RECURSIVE Replace(_, _, _)
Replace(s, old, new) ==
    LET hits == {i \in 1..(Len(s) - Len(old) + 1) : StartsAt(s, i, old)}
    IN  IF hits = {} THEN s
        ELSE SubSeq(s, 1, Least(hits) - 1) \o new
             \o Replace(SubSeq(s, Least(hits) + Len(old), Len(s)), old, new)

\* str.find(c) for a one-character c: 0-based index of the first c, or -1
Find(s, c) ==
    IF \E i \in 1..Len(s) : Ch(s, i) = c
    THEN (CHOOSE i \in 1..Len(s) : Ch(s, i) = c /\ \A j \in 1..(i - 1) : Ch(s, j) # c) - 1
    ELSE -1

\* a slip: the closing brace searched from the left
RFindFromLeft(s, c) == Find(s, c)

\* str.rfind(c) for a one-character c: 0-based index of the last c, or -1
RFind(s, c) ==
    IF \E i \in 1..Len(s) : Ch(s, i) = c
    THEN (CHOOSE i \in 1..Len(s) : Ch(s, i) = c /\ \A j \in (i + 1)..Len(s) : Ch(s, j) # c) - 1
    ELSE -1

\* s[a:b] for 0 <= a, 0 <= b (0-based, b exclusive)
Slice(s, a, b) == SubSeq(s, a + 1, IF b > Len(s) THEN Len(s) ELSE b)

(***************************************************************************)
(* json.loads, as the standard decoder scans: values are tagged records.   *)
(* A dict keeps its keys in insertion order; a repeated key keeps its      *)
(* first position and its last value.                                      *)
(***************************************************************************)
Digits == {"0", "1", "2", "3", "4", "5", "6", "7", "8", "9"}

DigitVal(c) ==
    CASE c = "0" -> 0 [] c = "1" -> 1 [] c = "2" -> 2 [] c = "3" -> 3 [] c = "4" -> 4
      [] c = "5" -> 5 [] c = "6" -> 6 [] c = "7" -> 7 [] c = "8" -> 8 [] c = "9" -> 9

JStr(s) == [t |-> "str", s |-> s]
JNum(n, isfloat) == [t |-> "num", n |-> n, float |-> isfloat]
JBool(b) == [t |-> "bool", b |-> b]
JArr(items) == [t |-> "list", items |-> items]
JObj(keys, vals) == [t |-> "dict", keys |-> keys, vals |-> vals]
EmptyDict == JObj(<<>>, <<>>)

HasKey(d, k) == \E i \in 1..Len(d.keys) : d.keys[i] = k

KeyIndex(d, k) == CHOOSE i \in 1..Len(d.keys) : d.keys[i] = k

\* d[k] = v
DictSet(d, k, v) ==
    IF HasKey(d, k)
    THEN JObj(d.keys, [d.vals EXCEPT ![KeyIndex(d, k)] = v])
    ELSE JObj(Append(d.keys, k), Append(d.vals, v))

\* d.get(k, default)
Get(d, k, default) == IF HasKey(d, k) THEN d.vals[KeyIndex(d, k)] ELSE default

Fail == [ok |-> FALSE]
Ok(v, next) == [ok |-> TRUE, val |-> v, next |-> next]

\* the whitespace matcher: first position at or after i that is not whitespace
RECURSIVE SkipWs(_, _)
SkipWs(s, i) ==
    IF i <= Len(s) /\ Ch(s, i) \in Whitespace THEN SkipWs(s, i + 1) ELSE i

\* scanstring from position i, after the opening quote (strict mode): the
\* string ends at the next quote and holds no control character
RECURSIVE StringEnd(_, _)
StringEnd(s, i) ==
    IF i > Len(s) \/ Ch(s, i) = "\n" THEN 0
    ELSE IF Ch(s, i) = "\"" THEN i
    ELSE StringEnd(s, i + 1)

ScanString(s, i) ==
    LET end == StringEnd(s, i)
    IN  IF end = 0 THEN Fail ELSE Ok(JStr(SubSeq(s, i, end - 1)), end + 1)

\* \d* from position i, onto the value acc of the digits before it
RECURSIVE ScanDigits(_, _, _)
ScanDigits(s, i, acc) ==
    IF i <= Len(s) /\ Ch(s, i) \in Digits
    THEN ScanDigits(s, i + 1, acc * 10 + DigitVal(Ch(s, i)))
    ELSE [val |-> acc, next |-> i]

RECURSIVE Pow10(_)
Pow10(n) == IF n = 0 THEN 1 ELSE 10 * Pow10(n - 1)

\* NUMBER_RE = (0|[1-9]\d*)([eE]\d+)? on this alphabet
ScanNumber(s, i) ==
    LET int == IF Ch(s, i) = "0" THEN [val |-> 0, next |-> i + 1] ELSE ScanDigits(s, i, 0)
        j == int.next
        hasExp == j + 1 <= Len(s) /\ Ch(s, j) = "e" /\ Ch(s, j + 1) \in Digits
        exp == ScanDigits(s, j + 1, 0)
    IN  IF hasExp
        THEN Ok(JNum(int.val * Pow10(exp.val), TRUE), exp.next)
        ELSE Ok(JNum(int.val, FALSE), j)

RECURSIVE ScanOnce(_, _)
RECURSIVE ScanMembers(_, _, _)
RECURSIVE ScanItems(_, _, _)

\* JSONObject from the position after "{"
ScanObject(s, i) ==
    LET j == SkipWs(s, i)
    IN  IF j > Len(s) THEN Fail
        ELSE IF Ch(s, j) = "}" THEN Ok(EmptyDict, j + 1)
        ELSE IF Ch(s, j) # "\"" THEN Fail
        ELSE ScanMembers(s, j + 1, EmptyDict)

\* one "key": value pair, starting after the key's opening quote
ScanMembers(s, i, d) ==
    LET key == ScanString(s, i)
        c == SkipWs(s, key.next)
        val == ScanOnce(s, SkipWs(s, c + 1))
        e == SkipWs(s, val.next)
        q == SkipWs(s, e + 1)
    IN  IF ~key.ok THEN Fail
        ELSE IF c > Len(s) \/ Ch(s, c) # ":" THEN Fail
        ELSE IF ~val.ok THEN Fail
        ELSE IF e > Len(s) THEN Fail
        ELSE IF Ch(s, e) = "}" THEN Ok(DictSet(d, key.val.s, val.val), e + 1)
        ELSE IF Ch(s, e) # "," THEN Fail
        ELSE IF q > Len(s) \/ Ch(s, q) # "\"" THEN Fail
        ELSE ScanMembers(s, q + 1, DictSet(d, key.val.s, val.val))

\* JSONArray from the position after "["
ScanArray(s, i) ==
    LET j == SkipWs(s, i)
    IN  IF j > Len(s) THEN Fail
        ELSE IF Ch(s, j) = "]" THEN Ok(JArr(<<>>), j + 1)
        ELSE ScanItems(s, j, <<>>)

ScanItems(s, i, items) ==
    LET val == ScanOnce(s, i)
        e == SkipWs(s, val.next)
    IN  IF ~val.ok THEN Fail
        ELSE IF e > Len(s) THEN Fail
        ELSE IF Ch(s, e) = "]" THEN Ok(JArr(Append(items, val.val)), e + 1)
        ELSE IF Ch(s, e) # "," THEN Fail
        ELSE ScanItems(s, SkipWs(s, e + 1), Append(items, val.val))

\* scan_once: one JSON value starting at position i
ScanOnce(s, i) ==
    IF i > Len(s) THEN Fail
    ELSE IF Ch(s, i) = "\"" THEN ScanString(s, i + 1)
    ELSE IF Ch(s, i) = "{" THEN ScanObject(s, i + 1)
    ELSE IF Ch(s, i) = "[" THEN ScanArray(s, i + 1)
    ELSE IF StartsAt(s, i, "null") THEN Ok(None, i + 4)
    ELSE IF StartsAt(s, i, "true") THEN Ok(JBool(TRUE), i + 4)
    ELSE IF StartsAt(s, i, "false") THEN Ok(JBool(FALSE), i + 5)
    ELSE IF Ch(s, i) \in Digits THEN ScanNumber(s, i)
    ELSE Fail

\* json.loads(s): raised |-> TRUE stands for JSONDecodeError
json_loads(s) ==
    LET r == ScanOnce(s, SkipWs(s, 1))
    IN  IF r.ok /\ SkipWs(s, r.next) = Len(s) + 1
        THEN [raised |-> FALSE, val |-> r.val]
        ELSE [raised |-> TRUE, val |-> None]

(***************************************************************************)
(* safe_json_parse                                                         *)
(***************************************************************************)
Fence == "~~~"
FenceJson == Fence \o "json"

\* the text after strip() and the two replace() calls
Unfenced(raw_text) == Replace(Replace(Strip(raw_text), FenceJson, ""), Fence, "")

\* the try body: the decoded slice, or raised |-> TRUE for JSONDecodeError
\* and for ValueError("JSON structure not found in model output.")
TryParse(raw_text) ==
    LET text == Unfenced(raw_text)
        first == Find(text, "{")
        last == RFind(text, "}")
    IN  IF first # -1 /\ last # -1
        THEN json_loads(Slice(text, first, last + 1))
        ELSE [raised |-> TRUE, val |-> None]

\* a slip: no except clause, the decode error leaves the function
safe_json_parse_uncaught(raw_text) ==
    LET body == TryParse(raw_text)
    IN  IF body.raised
        THEN [result |-> None, warned |-> FALSE, raised |-> TRUE]
        ELSE [result |-> body.val, warned |-> FALSE, raised |-> FALSE]

\* the except clause: warned |-> TRUE is st.warning("JSON parsing failed"),
\* raised |-> TRUE an exception leaving safe_json_parse
safe_json_parse(raw_text) ==
    LET body == TryParse(raw_text)
    IN  IF body.raised
        THEN [result |-> None, warned |-> TRUE, raised |-> FALSE]
        ELSE [result |-> body.val, warned |-> FALSE, raised |-> FALSE]

(***************************************************************************)
(* build_prompt                                                            *)
(***************************************************************************)
DigitChar(d) ==
    CASE d = 0 -> "0" [] d = 1 -> "1" [] d = 2 -> "2" [] d = 3 -> "3" [] d = 4 -> "4"
      [] d = 5 -> "5" [] d = 6 -> "6" [] d = 7 -> "7" [] d = 8 -> "8" [] d = 9 -> "9"

\* str(n) for a natural number n
RECURSIVE Str(_)
Str(n) == IF n < 10 THEN DigitChar(n) ELSE Str(n \div 10) \o DigitChar(n % 10)

PromptHead == "\nYou are a nutrition expert. Analyze the dish \""

PromptSchema ==
    "\" and return **valid JSON only**.\n\nThe JSON must follow exactly this format:\n{\n"
    \o "  \"dish_name\": string,\n  \"ingredients\": [string],\n"
    \o "  \"estimated_serving_g\": number,\n  \"calories_kcal\": number,\n"
    \o "  \"macros\": {\n    \"carbs_g\": number,\n    \"protein_g\": number,\n"
    \o "    \"fat_g\": number,\n    \"fiber_g\": number\n  },\n"
    \o "  \"micros\": {\n    \"vitamin_a_ug\": number,\n    \"vitamin_c_mg\": number,\n"
    \o "    \"calcium_mg\": number,\n    \"iron_mg\": number,\n    \"sodium_mg\": number\n  },\n"
    \o "  \"allergens\": [string],\n"
    \o "  \"confidence\": {\n    \"overall\": number,\n    \"calories\": number,\n"
    \o "    \"ingredients\": number\n  },\n"
    \o "  \"portion_recommendation\": {\n    \"amount_g\": number,\n    \"frequency\": string\n  },\n"
    \o "  \"healthiness_verdict\": {\n    \"rating\": string,\n    \"explanation\": string\n  },\n"
    \o "  \"advice\": [string]\n}\n\nUser context:\n"

\* the source's dash before "no markdown" is written "-" here
PromptTail ==
    "\n\nDish context: include nutrition, portion, allergens, and health advice.\n"
    \o "Return only valid JSON - no markdown, no code fences, no explanation outside JSON.\n"

\* extra_user_info.get(key, default) formatted into the f-string
InfoNum(info, key, default) == IF key \in DOMAIN info THEN Str(info[key]) ELSE default
InfoStr(info, key, default) == IF key \in DOMAIN info THEN info[key] ELSE default

user_context(info) ==
    "User: " \o InfoNum(info, "age", "?") \o " yrs, "
    \o InfoStr(info, "gender", "unspecified") \o ", "
    \o "height " \o InfoNum(info, "height_cm", "?") \o " cm, "
    \o "weight " \o InfoNum(info, "weight_kg", "?") \o " kg, "
    \o "activity: " \o InfoStr(info, "activity_level", "unspecified") \o ", "
    \o "dietary_preferences: " \o InfoStr(info, "dietary_pref", "none") \o ", "
    \o "allergies: " \o InfoStr(info, "allergies", "none") \o "."

build_prompt(name, info) ==
    Strip(PromptHead \o name \o PromptSchema \o user_context(info) \o PromptTail)

\* prompt += f"\nAdditional context: {notes.strip()}"
WithNotes(p, text) == p \o "\nAdditional context: " \o Strip(text)

(***************************************************************************)
(* The structured report (the "if parsed_json:" branch).  An operation of  *)
(* the report is [raised, ui]: the widgets it drew, and whether it raised. *)
(***************************************************************************)
\* bool(v)
Truthy(v) ==
    CASE v.t = "None" -> FALSE
      [] v.t = "bool" -> v.b
      [] v.t = "num" -> v.n # 0
      [] v.t = "str" -> v.s # ""
      [] v.t = "list" -> Len(v.items) > 0
      [] v.t = "dict" -> Len(v.keys) > 0

UpperChar(c) ==
    CASE c = "a" -> "A" [] c = "b" -> "B" [] c = "c" -> "C" [] c = "d" -> "D"
      [] c = "e" -> "E" [] c = "f" -> "F" [] c = "g" -> "G" [] c = "h" -> "H"
      [] c = "i" -> "I" [] c = "j" -> "J" [] c = "k" -> "K" [] c = "l" -> "L"
      [] c = "m" -> "M" [] c = "n" -> "N" [] c = "o" -> "O" [] c = "p" -> "P"
      [] c = "q" -> "Q" [] c = "r" -> "R" [] c = "s" -> "S" [] c = "t" -> "T"
      [] c = "u" -> "U" [] c = "v" -> "V" [] c = "w" -> "W" [] c = "x" -> "X"
      [] c = "y" -> "Y" [] c = "z" -> "Z" [] OTHER -> c

\* str.upper()
RECURSIVE Upper(_)
Upper(s) == IF Len(s) = 0 THEN s ELSE UpperChar(Ch(s, 1)) \o Upper(SubSeq(s, 2, Len(s)))

\* str.capitalize(); the rest of a decoded key is already lower case
Capitalize(s) == IF Len(s) = 0 THEN s ELSE UpperChar(Ch(s, 1)) \o SubSeq(s, 2, Len(s))

\* old in s
Contains(s, old) == \E i \in 1..Len(s) : StartsAt(s, i, old)

\* list(v): the items a for loop or str.join sees; raised |-> TRUE is TypeError
Iterate(v) ==
    CASE v.t = "list" -> [raised |-> FALSE, items |-> v.items]
      [] v.t = "dict" -> [raised |-> FALSE, items |-> [i \in 1..Len(v.keys) |-> JStr(v.keys[i])]]
      [] v.t = "str" -> [raised |-> FALSE, items |-> [i \in 1..Len(v.s) |-> JStr(Ch(v.s, i))]]
      [] OTHER -> [raised |-> TRUE, items |-> <<>>]

RECURSIVE JoinItems(_)
JoinItems(items) ==
    IF Len(items) = 0 THEN ""
    ELSE IF Len(items) = 1 THEN items[1].s
    ELSE items[1].s \o ", " \o JoinItems(Tail(items))

\* ", ".join(v): TypeError unless v is an iterable of str
Join(v) ==
    LET it == Iterate(v)
    IN  IF it.raised \/ \E i \in 1..Len(it.items) : it.items[i].t # "str"
        THEN [raised |-> TRUE, val |-> ""]
        ELSE [raised |-> FALSE, val |-> JoinItems(it.items)]

\* the fixed texts of the messages
RejectNotice == "Please provide a dish name or upload an image."
PreviewNotice == "Could not preview image."
ImageNotice == "Could not process image"
ParseNotice == "JSON parsing failed"
FallbackNotice == "Could not parse JSON. Displaying full output:"
ErrorNotice == "Error"

\* one Streamlit call: the function, the fixed text and the values shown
W(fn, text, args) == [fn |-> fn, text |-> text, args |-> args]

Drew(ui) == [raised |-> FALSE, ui |-> ui]
Raised == [raised |-> TRUE, ui |-> <<>>]

\* a; b
Then(a, b) == IF a.raised THEN a ELSE [raised |-> b.raised, ui |-> a.ui \o b.ui]

RenderDish(pj) ==
    Drew(<< W("subheader", "Nutrition Summary (Estimated)", <<>>),
            W("markdown", "Dish", <<Get(pj, "dish_name", JStr("Unknown"))>>),
            W("markdown", "Ingredients", <<>>) >>)

RenderIngredients(pj) ==
    LET joined == Join(Get(pj, "ingredients", JArr(<<>>)))
    IN  IF joined.raised THEN Raised ELSE Drew(<< W("write", "", <<JStr(joined.val)>>) >>)

RenderServing(pj) ==
    Drew(<< W("markdown", "Serving & Calories", <<>>),
            W("metric", "Estimated Serving", <<Get(pj, "estimated_serving_g", JNum(0, FALSE))>>),
            W("metric", "Calories", <<Get(pj, "calories_kcal", JNum(0, FALSE))>>),
            W("markdown", "Macros (per serving)", <<>>) >>)

RenderMacros(pj) ==
    LET macros == Get(pj, "macros", EmptyDict)
    IN  IF macros.t # "dict" THEN Raised
        ELSE Drew([i \in 1..Len(macros.keys) |->
                     W("write", Capitalize(Replace(macros.keys[i], "_g", "")) \o " g",
                       <<macros.vals[i]>>)])

\* the source's micro sign is written "u" here
MicroUnit(k) == IF Contains(k, "mg") THEN "mg" ELSE "ug"
MicroLabel(k) == Capitalize(Replace(Replace(Replace(k, "_mg", ""), "_ug", ""), "_", " "))

RenderMicros(pj) ==
    LET micros == Get(pj, "micros", EmptyDict)
    IN  Then(Drew(<< W("markdown", "Micronutrients", <<>>) >>),
             IF micros.t # "dict" THEN Raised
             ELSE Drew([i \in 1..Len(micros.keys) |->
                          W("write", MicroLabel(micros.keys[i]) \o " " \o MicroUnit(micros.keys[i]),
                            <<micros.vals[i]>>)]))

RenderAllergens(pj) ==
    LET joined == Join(Get(pj, "allergens", None))
    IN  Then(Drew(<< W("markdown", "Allergens", <<>>) >>),
             IF Truthy(Get(pj, "allergens", None))
             THEN IF joined.raised THEN Raised
                  ELSE Drew(<< W("warning", "", <<JStr(joined.val)>>) >>)
             ELSE Drew(<< W("write", "None", <<>>) >>))

\* st.progress accepts an int in 0..100 or a float in 0.0..1.0
ProgressOk(v) ==
    CASE v.t = "bool" -> TRUE
      [] v.t = "num" -> IF v.float THEN v.n \in 0..1 ELSE v.n \in 0..100
      [] OTHER -> FALSE

\* f"{v*100:.0f}%": ValueError or TypeError unless v is a number
PercentOk(v) == v.t \in {"num", "bool"}
Percent(v) == JStr(Str((IF v.t = "bool" THEN (IF v.b THEN 1 ELSE 0) ELSE v.n) * 100) \o "%")

RenderConfidence(pj) ==
    LET conf == Get(pj, "confidence", EmptyDict)
        overall == Get(conf, "overall", JNum(0, TRUE))
        calories == Get(conf, "calories", JNum(0, TRUE))
        ingredients == Get(conf, "ingredients", JNum(0, TRUE))
    IN  Then(Drew(<< W("markdown", "Confidence", <<>>) >>),
             IF conf.t # "dict" THEN Raised
             ELSE IF ~ProgressOk(overall) THEN Raised
             ELSE Then(Drew(<< W("progress", "", <<overall>>) >>),
                       IF PercentOk(calories) /\ PercentOk(ingredients)
                       THEN Drew(<< W("caption", "Calories confidence | Ingredients confidence",
                                      <<Percent(calories), Percent(ingredients)>>) >>)
                       ELSE Raised))

RenderPortion(pj) ==
    LET portion == Get(pj, "portion_recommendation", EmptyDict)
    IN  Then(Drew(<< W("markdown", "Portion Recommendation", <<>>) >>),
             IF portion.t # "dict" THEN Raised
             ELSE Drew(<< W("info", "portion",
                            << Get(portion, "amount_g", JStr("?")),
                               Get(portion, "frequency", JStr("No suggestion")) >>) >>))

RenderVerdict(pj) ==
    LET verdict == Get(pj, "healthiness_verdict", EmptyDict)
    IN  Then(Drew(<< W("markdown", "Healthiness Verdict", <<>>) >>),
             IF verdict.t # "dict" THEN Raised
             ELSE Drew(<< W("success", "verdict",
                            << Get(verdict, "rating", JStr("-")),
                               Get(verdict, "explanation", JStr("")) >>) >>))

RenderAdvice(pj) ==
    LET tips == Iterate(Get(pj, "advice", JArr(<<>>)))
    IN  Then(Drew(<< W("markdown", "Advice", <<>>) >>),
             IF tips.raised THEN Raised
             ELSE Drew([i \in 1..Len(tips.items) |-> W("write", "- ", <<tips.items[i]>>)]))

\* the second verdict box; the source's default rating here is a dash
RenderVerdictBox(pj) ==
    LET verdict == Get(pj, "healthiness_verdict", EmptyDict)
        rating == Get(verdict, "rating", JStr("-"))
    IN  IF ~Truthy(verdict) THEN Drew(<<>>)
        ELSE IF rating.t # "str" THEN Raised
        ELSE Drew(<< W("info", "Verdict",
                       <<JStr(Upper(rating.s)), Get(verdict, "explanation", JStr(""))>>) >>)

RenderReport(pj) ==
    Then(RenderDish(pj), Then(RenderIngredients(pj), Then(RenderServing(pj),
    Then(RenderMacros(pj), Then(RenderMicros(pj), Then(RenderAllergens(pj),
    Then(RenderConfidence(pj), Then(RenderPortion(pj), Then(RenderVerdict(pj),
    Then(RenderAdvice(pj), RenderVerdictBox(pj)))))))))))

\* the "else" branch: the notice and the raw text
RenderFallback(text) ==
    << W("warning", FallbackNotice, <<>>),
       W("write", "", <<JStr(text)>>) >>

(***************************************************************************)
(* Inputs: what the user enters, what the environment holds and what the   *)
(* model may reply.                                                        *)
(***************************************************************************)
\* the largest number of report fields present in, or absent from, a reply
MaxFields == 1

DishNames == {"", "idli"}

NotesTexts == {"", " \n", " less oil\n"}

\* st.file_uploader: None, or a file PIL can or cannot decode and st.image
\* can or cannot show
UploadedFiles == {[t |-> "file", decodes |-> d, previews |-> p] : d, p \in BOOLEAN}

Profiles ==
    { [age |-> 25, gender |-> "unspecified", height_cm |-> 170, weight_kg |-> 70,
       activity_level |-> "sedentary", dietary_pref |-> "none", allergies |-> ""],
      [age |-> 61, gender |-> "female", height_cm |-> 158, weight_kg |-> 54,
       activity_level |-> "active", dietary_pref |-> "vegan", allergies |-> "nuts, soy"] }

\* one well-typed member per NutritionReport field, in the schema's order
FieldTexts ==
    << "\"dish_name\":\"idli\"",
       "\"ingredients\":[\"rice\",\"dal\"]",
       "\"estimated_serving_g\":120",
       "\"calories_kcal\":90",
       "\"macros\":{\"carbs_g\":20,\"protein_g\":3}",
       "\"micros\":{\"vitamin_a_ug\":1,\"iron_mg\":2}",
       "\"allergens\":[\"nuts\"]",
       "\"confidence\":{\"overall\":1e0,\"calories\":1}",
       "\"portion_recommendation\":{\"amount_g\":100}",
       "\"healthiness_verdict\":{\"rating\":\"good\"}",
       "\"advice\":[\"eat less\",\"drink water\"]" >>

Fields == 1..Len(FieldTexts)

RECURSIVE MembersText(_, _)
MembersText(S, i) ==
    IF i > Len(FieldTexts) THEN ""
    ELSE IF i \in S
         THEN FieldTexts[i] \o (IF \E j \in S : j > i THEN "," ELSE "") \o MembersText(S, i + 1)
         ELSE MembersText(S, i + 1)

\* the JSON text of the report holding exactly the fields of S
ObjectText(S) == "{" \o MembersText(S, 1) \o "}"

FewFields == {S \in SUBSET Fields : Cardinality(S) <= MaxFields}

\* well-typed reports with few fields present or few fields absent
PartialReports ==
    {ObjectText(S) : S \in FewFields} \cup {ObjectText(Fields \ S) : S \in FewFields}

\* prose, fenced replies, broken JSON and reports with an ill-typed field
OtherReplies ==
    { "i cannot compute this",
      "sure ~~~json\n{\"dish_name\":\"idli\",\"calories_kcal\":120}\n~~~",
      "{oops}",
      "} {",
      "{\"ingredients\":5}",
      "{\"macros\":[1]}",
      "{\"micros\":\"x\"}",
      "{\"allergens\":0}",
      "{\"allergens\":5}",
      "{\"confidence\":{\"overall\":2e0}}",
      "{\"confidence\":{\"calories\":\"x\"}}",
      "{\"portion_recommendation\":\"x\"}",
      "{\"healthiness_verdict\":{\"rating\":1}}",
      "{\"healthiness_verdict\":[]}",
      "{\"advice\":null}" }

Replies == PartialReports \cup OtherReplies


(***************************************************************************)
(* The script.  Streamlit runs it top to bottom on every user action; pc   *)
(* is the position in the current run.                                     *)
(***************************************************************************)
VARIABLES
    key_set,        \* GOOGLE_API_KEY is in the environment
    sdk_installed,  \* google.generativeai can be imported
    pc,
    crash,          \* the exception that ended the run uncaught, or ""
    dish_name, uploaded_file, notes, analyze, profile,
    prompt, image_part, response_text, parsed_json,
    ui,             \* the Streamlit calls of this run that show a result or a message
    calls,          \* the input lists handed to generate_content in this run
    steps,          \* the steps of the analysis done in this run, in order
    raised_in,      \* the statement of the try block that raised, or ""
    earlier_error,  \* generate_content raised in an earlier run of this session
    parts, raw_text, parse_out, parse_pc   \* safe_json_parse called on its own

run_vars == <<dish_name, uploaded_file, notes, analyze, profile>>
local_vars == <<prompt, image_part, response_text, parsed_json>>
env_vars == <<key_set, sdk_installed>>
parse_vars == <<parts, raw_text, parse_out, parse_pc>>
vars == <<env_vars, pc, crash, run_vars, local_vars, ui, calls, steps, raised_in,
          earlier_error, parse_vars>>

NoParse == [result |-> None, warned |-> FALSE, raised |-> FALSE]
NoParts == [prefix |-> "", opener |-> "", body |-> "", closer |-> "", suffix |-> ""]

DefaultProfile == CHOOSE p \in Profiles : p.allergies = ""

Init ==
    /\ key_set \in BOOLEAN
    /\ sdk_installed \in BOOLEAN
    /\ pc = "start"
    /\ crash = ""
    /\ dish_name = ""
    /\ uploaded_file = None
    /\ notes = ""
    /\ analyze = FALSE
    /\ profile = DefaultProfile
    /\ prompt = ""
    /\ image_part = None
    /\ response_text = ""
    /\ parsed_json = None
    /\ ui = <<>>
    /\ calls = <<>>
    /\ steps = <<>>
    /\ raised_in = ""
    /\ earlier_error = FALSE
    /\ parts = NoParts
    /\ raw_text = ""
    /\ parse_out = NoParse
    /\ parse_pc = "idle"

\* lines 14-18
LoadKey ==
    /\ pc = "start"
    /\ IF key_set
       THEN /\ pc' = "import"
            /\ UNCHANGED <<ui, crash>>
       ELSE /\ ui' = Append(ui, W("error", "Please set GOOGLE_API_KEY in .env file.", <<>>))
            /\ crash' = "RuntimeError"
            /\ pc' = "crashed"
    /\ UNCHANGED <<env_vars, run_vars, local_vars, calls, steps, raised_in, earlier_error,
                   parse_vars>>

\* lines 21-27
ImportSdk ==
    /\ pc = "import"
    /\ IF sdk_installed
       THEN /\ pc' = "widgets"
            /\ UNCHANGED <<ui, crash>>
       ELSE /\ ui' = Append(ui, W("error", "Please install google-generativeai package", <<>>))
            /\ crash' = "ImportError"
            /\ pc' = "crashed"
    /\ UNCHANGED <<env_vars, run_vars, local_vars, calls, steps, raised_in, earlier_error,
                   parse_vars>>

\* lines 132-160: the page, the sidebar and the input column
Widgets ==
    /\ pc = "widgets"
    /\ dish_name' \in DishNames
    /\ uploaded_file' \in UploadedFiles \cup {None}
    /\ notes' \in NotesTexts
    /\ analyze' \in BOOLEAN
    /\ profile' \in Profiles
    /\ pc' = "preview"
    /\ UNCHANGED <<env_vars, crash, local_vars, ui, calls, steps, raised_in, earlier_error,
                   parse_vars>>

\* lines 162-168
Preview ==
    /\ pc = "preview"
    /\ ui' = IF uploaded_file = None THEN ui
             ELSE IF uploaded_file.previews
                  THEN Append(ui, W("image", "Uploaded image", <<>>))
                  ELSE Append(ui, W("warning", PreviewNotice, <<>>))
    /\ pc' = "analyze"
    /\ UNCHANGED <<env_vars, crash, run_vars, local_vars, calls, steps, raised_in,
                   earlier_error, parse_vars>>

\* line 171, button not pressed
NotPressed ==
    /\ pc = "analyze"
    /\ ~analyze
    /\ pc' = "footer"
    /\ UNCHANGED <<env_vars, crash, run_vars, local_vars, ui, calls, steps, raised_in,
                   earlier_error, parse_vars>>

\* a slip: "dish_name is not None or uploaded_file"; st.text_input returns ""
\* for an empty field, never None
SuppliedNotNone(name, file) == TRUE

\* dish_name or uploaded_file
Supplied(name, file) == name # "" \/ file # None

\* lines 171-173
Reject ==
    /\ pc = "analyze"
    /\ analyze
    /\ ~Supplied(dish_name, uploaded_file)
    /\ ui' = Append(ui, W("warning", RejectNotice, <<>>))
    /\ pc' = "footer"
    /\ UNCHANGED <<env_vars, crash, run_vars, local_vars, calls, steps, raised_in,
                   earlier_error, parse_vars>>

\* lines 171-185
BuildPrompt ==
    /\ pc = "analyze"
    /\ analyze
    /\ Supplied(dish_name, uploaded_file)
    /\ prompt' = build_prompt(dish_name, profile)
    /\ steps' = Append(steps, "build_prompt")
    /\ pc' = "notes"
    /\ UNCHANGED <<env_vars, crash, run_vars, image_part, response_text, parsed_json, ui,
                   calls, raised_in, earlier_error, parse_vars>>

\* lines 186-187
AppendNotes ==
    /\ pc = "notes"
    /\ IF Strip(notes) # ""
       THEN /\ prompt' = WithNotes(prompt, notes)
            /\ steps' = Append(steps, "append_notes")
       ELSE UNCHANGED <<prompt, steps>>
    /\ pc' = "prepare"
    /\ UNCHANGED <<env_vars, crash, run_vars, image_part, response_text, parsed_json, ui,
                   calls, raised_in, earlier_error, parse_vars>>

\* a slip: the except clause hands back the upload as it came
prepare_image_keeps(file) ==
    IF file.decodes
    THEN [part |-> [t |-> "part", mime_type |-> "image/png", data |-> "png bytes"],
          warned |-> FALSE]
    ELSE [part |-> [t |-> "part", mime_type |-> "image/png", data |-> "upload bytes"],
          warned |-> TRUE]

\* lines 91-100: part is the return value, warned the st.warning of the except clause
prepare_image(file) ==
    IF file.decodes
    THEN [part |-> [t |-> "part", mime_type |-> "image/png", data |-> "png bytes"],
          warned |-> FALSE]
    ELSE [part |-> None, warned |-> TRUE]

\* line 189
PrepareImage ==
    /\ pc = "prepare"
    /\ IF uploaded_file # None
       THEN /\ image_part' = prepare_image(uploaded_file).part
            /\ ui' = IF prepare_image(uploaded_file).warned
                     THEN Append(ui, W("warning", ImageNotice, <<>>))
                     ELSE ui
            /\ steps' = Append(steps, "prepare_image")
       ELSE /\ image_part' = None
            /\ UNCHANGED <<ui, steps>>
    /\ pc' = "call"
    /\ UNCHANGED <<env_vars, crash, run_vars, prompt, response_text, parsed_json, calls,
                   raised_in, earlier_error, parse_vars>>

\* a slip: inputs.append(image_part) without the "if image_part"
InputsAlways(p, part) == <<p, part>>

\* lines 106-108: the list handed to generate_content
Inputs(p, part) == IF part # None THEN <<p, part>> ELSE <<p>>

\* a slip: a second generate_content after the first one raised
CallGeminiRetry ==
    /\ pc = "call"
    /\ steps' = Append(steps, "call_gemini")
    /\ \/ \E text \in Replies :
            /\ calls' = Append(calls, Inputs(prompt, image_part))
            /\ response_text' = text
            /\ pc' = "extract"
            /\ UNCHANGED <<ui, raised_in>>
       \/ /\ calls' = calls \o <<Inputs(prompt, image_part), Inputs(prompt, image_part)>>
          /\ ui' = Append(ui, W("error", ErrorNotice, <<>>))
          /\ raised_in' = "call_gemini"
          /\ pc' = "footer"
          /\ UNCHANGED response_text
    /\ UNCHANGED <<env_vars, crash, run_vars, prompt, image_part, parsed_json,
                   earlier_error, parse_vars>>

\* lines 191-193 and, when generate_content raises, 256-257
CallGemini ==
    /\ pc = "call"
    /\ calls' = Append(calls, Inputs(prompt, image_part))
    /\ steps' = Append(steps, "call_gemini")
    /\ \/ \E text \in Replies :
            /\ response_text' = text
            /\ pc' = "extract"
            /\ UNCHANGED <<ui, raised_in>>
       \/ /\ ui' = Append(ui, W("error", ErrorNotice, <<>>))
          /\ raised_in' = "call_gemini"
          /\ pc' = "footer"
          /\ UNCHANGED response_text
    /\ UNCHANGED <<env_vars, crash, run_vars, prompt, image_part, parsed_json,
                   earlier_error, parse_vars>>

\* line 194 and, were safe_json_parse to raise, 256-257
Extract ==
    /\ pc = "extract"
    /\ steps' = Append(steps, "safe_json_parse")
    /\ LET out == safe_json_parse(response_text)
       IN  IF out.raised
           THEN /\ ui' = Append(ui, W("error", ErrorNotice, <<>>))
                /\ raised_in' = "safe_json_parse"
                /\ pc' = "footer"
                /\ UNCHANGED parsed_json
           ELSE /\ parsed_json' = out.result
                /\ ui' = IF out.warned
                         THEN Append(ui, W("warning", ParseNotice, <<>>))
                         ELSE ui
                /\ pc' = "render"
                /\ UNCHANGED raised_in
    /\ UNCHANGED <<env_vars, crash, run_vars, prompt, image_part, response_text, calls,
                   earlier_error, parse_vars>>

\* line 196: if parsed_json
ShowsReport(pj) == Truthy(pj)

\* a slip: the report drawn outside the try block
RenderUncaught ==
    /\ pc = "render"
    /\ IF ShowsReport(parsed_json)
       THEN LET report == RenderReport(parsed_json)
            IN  /\ steps' = Append(steps, "report")
                /\ ui' = ui \o report.ui
                /\ UNCHANGED raised_in
                /\ IF report.raised
                   THEN crash' = "TypeError" /\ pc' = "crashed"
                   ELSE pc' = "footer" /\ UNCHANGED crash
       ELSE /\ steps' = Append(steps, "fallback")
            /\ ui' = ui \o RenderFallback(response_text)
            /\ pc' = "footer"
            /\ UNCHANGED <<raised_in, crash>>
    /\ UNCHANGED <<env_vars, run_vars, local_vars, calls, earlier_error, parse_vars>>

\* lines 196-254 and, when a widget of the report raises, 256-257
Render ==
    /\ pc = "render"
    /\ IF ShowsReport(parsed_json)
       THEN LET report == RenderReport(parsed_json)
            IN  /\ steps' = Append(steps, "report")
                /\ IF report.raised
                   THEN /\ ui' = ui \o report.ui \o << W("error", ErrorNotice, <<>>) >>
                        /\ raised_in' = "report"
                   ELSE /\ ui' = ui \o report.ui
                        /\ UNCHANGED raised_in
       ELSE /\ steps' = Append(steps, "fallback")
            /\ ui' = ui \o RenderFallback(response_text)
            /\ UNCHANGED raised_in
    /\ pc' = "footer"
    /\ UNCHANGED <<env_vars, crash, run_vars, local_vars, calls, earlier_error, parse_vars>>

\* lines 259-260
Footer ==
    /\ pc = "footer"
    /\ pc' = "done"
    /\ UNCHANGED <<env_vars, crash, run_vars, local_vars, ui, calls, steps, raised_in,
                   earlier_error, parse_vars>>

\* the next user action: Streamlit runs the script again from the top; the
\* locals are rebound and the widgets read anew in Widgets
Rerun ==
    /\ pc = "done"
    /\ pc' = "start"
    /\ crash' = ""
    /\ dish_name' = ""
    /\ uploaded_file' = None
    /\ notes' = ""
    /\ analyze' = FALSE
    /\ profile' = DefaultProfile
    /\ prompt' = ""
    /\ image_part' = None
    /\ response_text' = ""
    /\ parsed_json' = None
    /\ ui' = <<>>
    /\ calls' = <<>>
    /\ steps' = <<>>
    /\ raised_in' = ""
    /\ earlier_error' = (earlier_error \/ raised_in = "call_gemini")
    /\ UNCHANGED <<env_vars, parse_vars>>

Next ==
    \/ LoadKey
    \/ ImportSdk
    \/ Widgets
    \/ Preview
    \/ NotPressed
    \/ Reject
    \/ BuildPrompt
    \/ AppendNotes
    \/ PrepareImage
    \/ CallGemini
    \/ Extract
    \/ Render
    \/ Footer
    \/ Rerun

Spec == Init /\ [][Next]_vars

(***************************************************************************)
(* safe_json_parse on its own: a JSON text or a broken one, fenced or not, *)
(* between two pieces of prose.                                            *)
(***************************************************************************)
\* the longest prose before and after the embedded text
MaxProse == 1

ProseChars == {"a", " ", "{", "}", "~"}

RECURSIVE Texts(_)
Texts(n) ==
    IF n = 0 THEN {""}
    ELSE Texts(n - 1) \cup {t \o c : t \in Texts(n - 1), c \in ProseChars}

Proses == Texts(MaxProse)

Openers == {"", FenceJson \o "\n"}
Closers == {"", "\n" \o Fence}

WellFormedBodies ==
    { "{}",
      "{\"a\":1}",
      "{\"a\": {\"b\":[1,\"x\"]}, \"c\":null}",
      "{\"a\":\"}{\"}",
      "{\"a\":\"~~~\"}",
      "{\"a\":\"x~~~jsony\"}" }

BrokenBodies == {"", "{a}", "{\"a\":1", "{\"a\":1}}"}

Bodies == WellFormedBodies \cup BrokenBodies

Embed(p) == p.prefix \o p.opener \o p.body \o p.closer \o p.suffix

ParseInit ==
    /\ key_set = TRUE
    /\ sdk_installed = TRUE
    /\ pc = "start"
    /\ crash = ""
    /\ dish_name = ""
    /\ uploaded_file = None
    /\ notes = ""
    /\ analyze = FALSE
    /\ profile = DefaultProfile
    /\ prompt = ""
    /\ image_part = None
    /\ response_text = ""
    /\ parsed_json = None
    /\ ui = <<>>
    /\ calls = <<>>
    /\ steps = <<>>
    /\ raised_in = ""
    /\ earlier_error = FALSE
    /\ parts \in [prefix : Proses, opener : Openers, body : Bodies, closer : Closers,
                  suffix : Proses]
    /\ raw_text = Embed(parts)
    /\ parse_out = NoParse
    /\ parse_pc = "called"

\* lines 116-128
ParseReturn ==
    /\ parse_pc = "called"
    /\ parse_out' = safe_json_parse(raw_text)
    /\ parse_pc' = "returned"
    /\ UNCHANGED <<env_vars, pc, crash, run_vars, local_vars, ui, calls, steps, raised_in,
                   earlier_error, parts, raw_text>>

ParseNext == ParseReturn

ParseSpec == ParseInit /\ [][ParseNext]_vars

(***************************************************************************)
(* Properties                                                              *)
(***************************************************************************)
Shown(fn, text) == \E i \in 1..Len(ui) : ui[i].fn = fn /\ ui[i].text = text

Did(step) == \E i \in 1..Len(steps) : steps[i] = step

AfterAnalysis == pc \in {"footer", "done"}

Undecodable == uploaded_file # None /\ ~uploaded_file.decodes

\* C1: an Analyze with an empty dish name and no upload is rejected with the
\* warning; no prompt is built, no image prepared and no model call made.
C1_RejectedWithoutWork ==
    (analyze /\ dish_name = "" /\ uploaded_file = None)
        => /\ steps = <<>>
           /\ calls = <<>>
           /\ prompt = ""
           /\ image_part = None
           /\ AfterAnalysis => Shown("warning", RejectNotice)

C1_Witness ==
    /\ analyze /\ dish_name = "" /\ uploaded_file = None
    /\ pc = "done"
    /\ Shown("warning", RejectNotice)

NoBrace(s) == \A i \in 1..Len(s) : Ch(s, i) \notin {"{", "}"}

\* C2 as stated: a well-formed JSON object inside any prose, fenced or not,
\* is returned as json.loads decodes the object alone.
C2_RoundTripAnyProse ==
    (parse_pc = "returned" /\ parts.body \in WellFormedBodies)
        => /\ parse_out.result = json_loads(parts.body).val
           /\ ~parse_out.warned

\* C2 amended: the round trip holds when the prose around the object has no
\* brace and the object has no fence marker in it.
C2_RoundTripCleanProse ==
    ( /\ parse_pc = "returned"
      /\ parts.body \in WellFormedBodies
      /\ NoBrace(parts.prefix) /\ NoBrace(parts.suffix)
      /\ ~Contains(parts.body, Fence) )
        => /\ parse_out.result = json_loads(parts.body).val
           /\ ~parse_out.warned

C2_Witness ==
    /\ parse_pc = "returned"
    /\ parts.body = "{\"a\": {\"b\":[1,\"x\"]}, \"c\":null}"
    /\ parts.prefix = "~" /\ parts.suffix = "a"
    /\ parts.opener # "" /\ parts.closer # ""
    /\ parse_out.result = JObj(<<"a", "c">>,
                               <<JObj(<<"b">>, <<JArr(<<JNum(1, FALSE), JStr("x")>>)>>), None>>)

Positions(s, c) == {i \in 1..Len(s) : Ch(s, i) = c}

\* the characters from the first "{" through the last "}" of a text holding both
BracedSpan(text) ==
    SubSeq(text,
           CHOOSE i \in Positions(text, "{") : \A j \in Positions(text, "{") : i <= j,
           CHOOSE i \in Positions(text, "}") : \A j \in Positions(text, "}") : j <= i)

\* C3: safe_json_parse never raises; it warns and returns None when the
\* unfenced text lacks "{" or "}" or when the span from the first "{"
\* through the last "}" is not valid JSON (an empty span when the last "}"
\* comes first); otherwise it returns the decoding of that span.
C3_NoneOrDecodedSpan ==
    parse_pc = "returned"
        => LET text == Unfenced(raw_text)
           IN  /\ ~parse_out.raised
               /\ IF Positions(text, "{") = {} \/ Positions(text, "}") = {}
                  THEN parse_out.result = None /\ parse_out.warned
                  ELSE IF json_loads(BracedSpan(text)).raised
                       THEN parse_out.result = None /\ parse_out.warned
                       ELSE /\ parse_out.result = json_loads(BracedSpan(text)).val
                            /\ ~parse_out.warned

C3_Witness ==
    /\ parse_pc = "returned"
    /\ raw_text = "}{"
    /\ parse_out = [result |-> None, warned |-> TRUE, raised |-> FALSE]

\* C4 as stated: once the extractor has returned, the raw-text fallback is
\* shown exactly when it returned None, and a record with fields absent
\* (the empty record too) gets the structured report, drawn without raising.
C4_FallbackIffNone ==
    (AfterAnalysis /\ Did("safe_json_parse"))
        => /\ Did("fallback") <=> parsed_json = None
           /\ response_text \in PartialReports
                => /\ Did("report")
                   /\ raised_in = ""
                   /\ ~Shown("warning", FallbackNotice)

\* C5: when the upload cannot be decoded, the warning is shown, image_part
\* is None and the same run makes the model call with the prompt alone.
C5_DecodeFailureProceeds ==
    (analyze /\ Undecodable)
        => /\ pc \in {"call", "extract", "render", "footer", "done"}
                => image_part = None /\ Shown("warning", ImageNotice)
           /\ pc \in {"extract", "render", "footer", "done"} => calls = << <<prompt>> >>

C5_Witness ==
    /\ analyze /\ Undecodable
    /\ pc = "done"
    /\ calls = << <<prompt>> >>
    /\ Shown("warning", ImageNotice)

ReportShown == \E i \in 1..Len(ui) : ui[i].fn = "subheader"

Accepted == analyze /\ (dish_name # "" \/ uploaded_file # None)

\* C6: when the model call raises, the run shows the error, makes no second
\* call, extracts nothing and draws neither the report nor the fallback; a
\* later run of the session is processed as any run is.
C6_ModelErrorHandled ==
    /\ raised_in = "call_gemini"
         => /\ AfterAnalysis
            /\ crash = ""
            /\ Shown("error", ErrorNotice)
            /\ Len(calls) = 1
            /\ ~Did("safe_json_parse") /\ ~Did("report") /\ ~Did("fallback")
            /\ parsed_json = None
            /\ ~ReportShown /\ ~Shown("warning", FallbackNotice)
    /\ (earlier_error /\ pc = "done")
         => /\ crash = ""
            /\ Accepted => Len(calls) = 1
            /\ ~Accepted => calls = <<>>
            /\ (Accepted /\ raised_in = "")
                 => /\ Did("safe_json_parse")
                    /\ Did("report") \/ Did("fallback")
                    /\ ReportShown \/ Shown("warning", FallbackNotice)

C6_Witness ==
    /\ earlier_error
    /\ pc = "done"
    /\ Accepted
    /\ raised_in = ""
    /\ Did("report") /\ ReportShown

\* C7 as stated: a request that reaches the model has exactly one of the
\* dish name and the upload.
C7_ExactlyOne ==
    Len(calls) > 0 => ((dish_name # "") # (uploaded_file # None))

\* C7 amended: a request that reaches the model has at least one of the
\* dish name and the upload; one with neither never reaches it.
C7_AtLeastOne ==
    (Len(calls) > 0 \/ steps # <<>>) => (dish_name # "" \/ uploaded_file # None)

C7_Witness ==
    /\ Len(calls) = 1
    /\ dish_name # ""
    /\ uploaded_file # None

\* every failure after startup ends in a message and the run goes on
FailuresCaught ==
    /\ (uploaded_file # None /\ ~uploaded_file.previews /\ pc \notin {"preview"})
         => Shown("warning", PreviewNotice)
    /\ (analyze /\ Undecodable /\ pc \in {"call", "extract", "render", "footer", "done"})
         => Shown("warning", ImageNotice)
    /\ raised_in # "" => (AfterAnalysis /\ Shown("error", ErrorNotice))
    /\ (Did("safe_json_parse") /\ raised_in # "safe_json_parse" /\ parsed_json = None)
         => Shown("warning", ParseNotice)
    /\ (Did("report") /\ RenderReport(parsed_json).raised) => raised_in = "report"

\* C8 as stated: every failure is caught and shown, and the only exception
\* that ends the script is the missing key at startup.
C8_OnlyMissingKeyCrashes ==
    /\ FailuresCaught
    /\ (crash # "" \/ pc = "crashed") => (crash = "RuntimeError" /\ ~key_set)

\* C8 amended: every failure is caught and shown, and the only exceptions
\* that end the script are the two startup ones, the missing key and the
\* missing google-generativeai package.
C8_OnlyStartupCrashes ==
    /\ FailuresCaught
    /\ (crash # "" \/ pc = "crashed")
         => /\ pc = "crashed"
            /\ steps = <<>> /\ calls = <<>>
            /\ \/ crash = "RuntimeError" /\ ~key_set
               \/ crash = "ImportError" /\ key_set /\ ~sdk_installed

C8_Witness ==
    /\ pc = "done"
    /\ raised_in = "report"
    /\ Shown("error", ErrorNotice)
    /\ crash = ""

\* the steps of an accepted run up to the extraction, from its inputs
ExpectedSteps ==
    <<"build_prompt">>
    \o (IF Strip(notes) # "" THEN <<"append_notes">> ELSE <<>>)
    \o (IF uploaded_file # None THEN <<"prepare_image">> ELSE <<>>)
    \o <<"call_gemini", "safe_json_parse">>

\* C9: an accepted run builds the prompt, appends the notes when they are
\* not blank, prepares the image when a file was uploaded, calls the model
\* once with [prompt] or [prompt, image part], extracts, then draws the
\* report or the fallback, in this order.
C9_FixedOrder ==
    /\ Len(steps) <= Len(ExpectedSteps) + 1
    /\ \A i \in 1..Len(steps) :
          IF i <= Len(ExpectedSteps)
          THEN steps[i] = ExpectedSteps[i]
          ELSE steps[i] \in {"report", "fallback"}
    /\ Len(calls) = (IF Did("call_gemini") THEN 1 ELSE 0)
    /\ Len(calls) = 1
         => /\ calls[1][1] = prompt
            /\ image_part = None => Len(calls[1]) = 1
            /\ image_part # None
                 => /\ Len(calls[1]) = 2
                    /\ calls[1][2] = image_part
                    /\ image_part.mime_type = "image/png"
    /\ pc \in {"prepare", "call", "extract", "render"} \/ (AfterAnalysis /\ Accepted)
         => prompt = IF Strip(notes) # ""
                     THEN build_prompt(dish_name, profile)
                          \o "\nAdditional context: " \o Strip(notes)
                     ELSE build_prompt(dish_name, profile)
    /\ (pc = "done" /\ Accepted /\ raised_in = "")
         => Len(steps) = Len(ExpectedSteps) + 1

C9_Witness ==
    /\ pc = "done"
    /\ steps = <<"build_prompt", "append_notes", "prepare_image", "call_gemini",
                 "safe_json_parse", "report">>
    /\ Len(calls) = 1
    /\ Len(calls[1]) = 2

\* C10 as stated: every model call carries a non-empty dish name or an
\* image part.
C10_UsableDescription ==
    Len(calls) > 0 => (dish_name # "" \/ Len(calls[1]) = 2)

====
